---- MODULE Spec2Model ----
(***************************************************************************)
(* Model of app/otel_config.py: the OpenTelemetry configuration object,    *)
(* the tracing set-up, the library instrumentation and the module-level    *)
(* accessors, as a state machine over the process-wide tracing state.      *)
(*                                                                         *)
(* Python strings are sequences of one-character strings, so that split,   *)
(* strip, lower, int() and float() are computed and not assumed.  An       *)
(* optional value (os.getenv without default, a local that may be None)    *)
(* is a sequence of length 0 (None) or 1 (the value).                      *)
(***************************************************************************)
EXTENDS Naturals, Sequences, FiniteSets

(***************************************************************************)
(* Bounds of the model.                                                    *)
(***************************************************************************)
\* top-level calls the main thread makes
MaxCalls == 3
\* get_otel_config calls the second thread makes
MaxWorkerCalls == 1
\* length of the strings the parser is run on in SpecParse
MaxLen == 3

(***************************************************************************)
(* Strings.                                                                *)
(***************************************************************************)
None == <<>>
Some(v) == <<v>>

\* str.lower(), on the letters the settings use
lower_char(c) ==
    CASE c = "T" -> "t"
      [] c = "R" -> "r"
      [] c = "U" -> "u"
      [] c = "E" -> "e"
      [] OTHER -> c

lower(s) == [i \in 1..Len(s) |-> lower_char(s[i])]

\* least index of c in s, 0 when there is none (str.find + 1)
find(s, c) ==
    IF \E i \in 1..Len(s) : s[i] = c
    THEN CHOOSE i \in 1..Len(s) : s[i] = c /\ \A j \in 1..(i - 1) : s[j] # c
    ELSE 0

\* str.split(sep): every piece, empty ones included
RECURSIVE split(_, _)
split(s, sep) ==
    LET i == find(s, sep) IN
    IF i = 0 THEN <<s>>
    ELSE <<SubSeq(s, 1, i - 1)>> \o split(SubSeq(s, i + 1, Len(s)), sep)

\* str.split(sep, 1): one piece, or the text before and after the first sep
split1(s, sep) ==
    LET i == find(s, sep) IN
    IF i = 0 THEN <<s>>
    ELSE <<SubSeq(s, 1, i - 1), SubSeq(s, i + 1, Len(s))>>

\* str.strip(): white space removed at both ends
RECURSIVE lstrip(_)
lstrip(s) == IF s # <<>> /\ Head(s) = " " THEN lstrip(Tail(s)) ELSE s

RECURSIVE rstrip(_)
rstrip(s) ==
    IF s # <<>> /\ s[Len(s)] = " " THEN rstrip(SubSeq(s, 1, Len(s) - 1)) ELSE s

strip(s) == rstrip(lstrip(s))

Digits == {"0", "1", "2", "3", "4", "5", "6", "7", "8", "9"}

digit_value(c) ==
    CASE c = "0" -> 0 [] c = "1" -> 1 [] c = "2" -> 2 [] c = "3" -> 3
      [] c = "4" -> 4 [] c = "5" -> 5 [] c = "6" -> 6 [] c = "7" -> 7
      [] c = "8" -> 8 [] c = "9" -> 9

\* int(s) raises ValueError unless s is a decimal numeral
int_raises(s) == s = <<>> \/ \E i \in 1..Len(s) : s[i] \notin Digits

RECURSIVE int(_)
int(s) == IF s = <<>> THEN 0 ELSE int(SubSeq(s, 1, Len(s) - 1)) * 10 + digit_value(s[Len(s)])

\* float(s) raises ValueError unless s is digits with at most one point
float_raises(s) ==
    \/ \A i \in 1..Len(s) : s[i] \notin Digits
    \/ \E i \in 1..Len(s) : s[i] \notin Digits \cup {"."}
    \/ Cardinality({i \in 1..Len(s) : s[i] = "."}) > 1

\* dict: a function from keys to values
EmptyDict == [k \in {} |-> <<>>]

\* d[k] = v
dict_set(d, k, v) == [x \in DOMAIN d \cup {k} |-> IF x = k THEN v ELSE d[x]]

\* {**a, **b}: b's entries win
dict_merge(a, b) ==
    [x \in DOMAIN a \cup DOMAIN b |-> IF x \in DOMAIN b THEN b[x] ELSE a[x]]

(***************************************************************************)
(* The text of the settings and of the resource keys.                      *)
(***************************************************************************)
str_true == <<"t", "r", "u", "e">>
str_TRUE == <<"T", "R", "U", "E">>
str_false == <<"f", "a", "l", "s", "e">>
default_service_name == <<"i", "h", "i">>
default_service_version == <<"1", ".", "0", ".", "0">>
default_environment == <<"d", "e", "v">>
default_sample_rate == <<"0", ".", "1">>
key_service_name == <<"s", "e", "r", "v", "i", "c", "e", ".", "n", "a", "m", "e">>
key_service_version ==
    <<"s", "e", "r", "v", "i", "c", "e", ".", "v", "e", "r", "s", "i", "o", "n">>
key_deployment_environment ==
    <<"d", "e", "p", "l", "o", "y", "m", "e", "n", "t", ".",
      "e", "n", "v", "i", "r", "o", "n", "m", "e", "n", "t">>

\* the agent port used when the Jaeger endpoint names no port
DefaultJaegerPort == 14268

Libs == {"flask", "sqlalchemy", "kafka", "psycopg2"}
Threads == {"main", "worker"}

VARIABLES
    env,            \* os.environ: setting -> None | Some(text)
    configs,        \* the OpenTelemetryConfig instances constructed, in order
    _otel_config,   \* the module global: None | Some(index into configs)
    pc,             \* per thread: where it is
    frame,          \* per thread: the locals of the call it is in
    calls,          \* per thread: top-level calls made
    outcome,        \* per thread: how its last top-level call ended
    providers,      \* every TracerProvider created, in order
    _TRACER_PROVIDER,   \* opentelemetry.trace's global: None | Some(index into providers)
    textmap,        \* opentelemetry.propagate's global: None | Some(formats)
    effects,        \* counters: calls into the tracing libraries, instrument_libraries runs
    instr,          \* per library: instrument() calls, successes, warnings
    log,            \* messages logged, by level and site
    held,           \* per thread: the instance its last get_otel_config() returned
    broken,         \* the libraries whose instrument() raises
    parse_out       \* SpecParse: None | Some(result of _parse_custom_attributes)

vars == <<env, configs, _otel_config, pc, frame, calls, outcome, providers,
          _TRACER_PROVIDER, textmap, effects, instr, log, held, broken, parse_out>>

\* os.getenv(name, default)
getenv(e, name, default) == IF e[name] = None THEN default ELSE e[name][1]

(***************************************************************************)
(* OpenTelemetryConfig._parse_custom_attributes                            *)
(***************************************************************************)
\* the for loop under try: the first entry that does not unpack into key and
\* value raises ValueError, which ends the loop; attributes is returned after
RECURSIVE parse_entries(_, _)
parse_entries(entries, attributes) ==
    IF entries = <<>> THEN [attributes |-> attributes, warned |-> FALSE]
    ELSE LET kv == split1(strip(Head(entries)), "=") IN
         IF Len(kv) # 2 THEN [attributes |-> attributes, warned |-> TRUE]
         ELSE parse_entries(Tail(entries), dict_set(attributes, kv[1], kv[2]))

_parse_custom_attributes(e) ==
    LET custom_attrs == getenv(e, "OTEL_CUSTOM_ATTRIBUTES", <<>>) IN
    IF custom_attrs # <<>>
    THEN parse_entries(split(custom_attrs, ","), EmptyDict)
    ELSE [attributes |-> EmptyDict, warned |-> FALSE]

(***************************************************************************)
(* OpenTelemetryConfig.__init__                                            *)
(***************************************************************************)
env_flag(e, name, default) == lower(getenv(e, name, default)) = str_true

\* float(os.getenv("OTEL_TRACE_SAMPLE_RATE", "0.1")) raises ValueError
init_raises(e) == float_raises(getenv(e, "OTEL_TRACE_SAMPLE_RATE", default_sample_rate))

\* the fields of a constructed instance
OpenTelemetryConfig(e) ==
    [service_name |-> getenv(e, "OTEL_SERVICE_NAME", default_service_name),
     service_version |-> getenv(e, "OTEL_SERVICE_VERSION", default_service_version),
     environment |-> getenv(e, "OTEL_ENVIRONMENT", default_environment),
     otel_enabled |-> env_flag(e, "OTEL_ENABLED", str_false),
     jaeger_endpoint |-> e["OTEL_JAEGER_ENDPOINT"],
     otlp_endpoint |-> e["OTEL_OTLP_ENDPOINT"],
     console_exporter |-> env_flag(e, "OTEL_CONSOLE_EXPORTER", str_false),
     trace_sample_rate |-> getenv(e, "OTEL_TRACE_SAMPLE_RATE", default_sample_rate),
     instrument |->
        [flask |-> env_flag(e, "OTEL_INSTRUMENT_FLASK", str_true),
         sqlalchemy |-> env_flag(e, "OTEL_INSTRUMENT_SQLALCHEMY", str_true),
         kafka |-> env_flag(e, "OTEL_INSTRUMENT_KAFKA", str_true),
         psycopg2 |-> env_flag(e, "OTEL_INSTRUMENT_PSYCOPG2", str_true)],
     custom_attributes |-> _parse_custom_attributes(e).attributes]

(***************************************************************************)
(* The calls of a thread.                                                  *)
(***************************************************************************)
NoFrame ==
    [op |-> "", config |-> None, tmp |-> None, tracer_provider |-> None,
     exporters |-> <<>>, tracer |-> None]

NoOutcome == [op |-> "", how |-> "none", value |-> None, built |-> None]

\* a top-level call starts
Call(t, op, at, config) ==
    /\ pc[t] = "idle"
    /\ calls[t] < (IF t = "main" THEN MaxCalls ELSE MaxWorkerCalls)
    /\ pc' = [pc EXCEPT ![t] = at]
    /\ frame' = [frame EXCEPT ![t] = [NoFrame EXCEPT !.op = op, !.config = config]]
    /\ calls' = [calls EXCEPT ![t] = @ + 1]

\* the top-level call of t ends: how is "returned" or "raised"
EndCall(t, how, value) ==
    /\ pc' = [pc EXCEPT ![t] = "idle"]
    /\ outcome' = [outcome EXCEPT ![t] =
            [op |-> frame[t].op, how |-> how, value |-> value,
             built |-> frame[t].tracer_provider]]
    /\ frame' = [frame EXCEPT ![t] = NoFrame]

CallGetOtelConfig(t) ==
    /\ Call(t, "get_otel_config", "goc_check", None)
    /\ UNCHANGED <<env, configs, _otel_config, outcome, providers, _TRACER_PROVIDER,
                   textmap, effects, instr, log, held, broken, parse_out>>

\* config.setup_tracing() on the instance the thread holds
CallSetupTracing(t) ==
    /\ t = "main"
    /\ held[t] # None
    /\ Call(t, "setup_tracing", "st_enabled", held[t])
    /\ UNCHANGED <<env, configs, _otel_config, outcome, providers, _TRACER_PROVIDER,
                   textmap, effects, instr, log, held, broken, parse_out>>

\* config.instrument_libraries() on the instance the thread holds
CallInstrumentLibraries(t) ==
    /\ t = "main"
    /\ held[t] # None
    /\ Call(t, "instrument_libraries", "il", held[t])
    /\ UNCHANGED <<env, configs, _otel_config, outcome, providers, _TRACER_PROVIDER,
                   textmap, effects, instr, log, held, broken, parse_out>>

CallSetupOpentelemetry(t) ==
    /\ t = "main"
    /\ Call(t, "setup_opentelemetry", "goc_check", None)
    /\ UNCHANGED <<env, configs, _otel_config, outcome, providers, _TRACER_PROVIDER,
                   textmap, effects, instr, log, held, broken, parse_out>>

(***************************************************************************)
(* get_otel_config                                                         *)
(***************************************************************************)
\* if _otel_config is None:
goc_check(t) ==
    /\ pc[t] = "goc_check"
    /\ pc' = [pc EXCEPT ![t] = IF _otel_config = None THEN "goc_construct" ELSE "goc_return"]
    /\ UNCHANGED <<env, configs, _otel_config, frame, calls, outcome, providers,
                   _TRACER_PROVIDER, textmap, effects, instr, log, held, broken, parse_out>>

\* OpenTelemetryConfig(): the instance, or ValueError out of the call
goc_construct(t) ==
    /\ pc[t] = "goc_construct"
    /\ IF init_raises(env)
       THEN /\ EndCall(t, "raised", None)
            /\ UNCHANGED <<configs, log>>
       ELSE /\ configs' = Append(configs, OpenTelemetryConfig(env))
            /\ log' = [log EXCEPT !.parse_warning =
                            @ + (IF _parse_custom_attributes(env).warned THEN 1 ELSE 0)]
            /\ frame' = [frame EXCEPT ![t].tmp = Some(Len(configs) + 1)]
            /\ pc' = [pc EXCEPT ![t] = "goc_store"]
            /\ UNCHANGED outcome
    /\ UNCHANGED <<env, _otel_config, calls, providers, _TRACER_PROVIDER, textmap,
                   effects, instr, held, broken, parse_out>>

\* _otel_config = <the new instance>
goc_store(t) ==
    /\ pc[t] = "goc_store"
    /\ _otel_config' = frame[t].tmp
    /\ pc' = [pc EXCEPT ![t] = "goc_return"]
    /\ UNCHANGED <<env, configs, frame, calls, outcome, providers, _TRACER_PROVIDER,
                   textmap, effects, instr, log, held, broken, parse_out>>

\* return _otel_config, to the caller or into setup_opentelemetry's config
goc_return(t) ==
    /\ pc[t] = "goc_return"
    /\ IF frame[t].op = "setup_opentelemetry"
       THEN /\ frame' = [frame EXCEPT ![t].config = _otel_config]
            /\ pc' = [pc EXCEPT ![t] = "st_enabled"]
            /\ UNCHANGED <<outcome, held>>
       ELSE /\ EndCall(t, "returned", _otel_config)
            /\ held' = [held EXCEPT ![t] = _otel_config]
    /\ UNCHANGED <<env, configs, _otel_config, calls, providers, _TRACER_PROVIDER,
                   textmap, effects, instr, log, broken, parse_out>>

(***************************************************************************)
(* OpenTelemetryConfig.setup_tracing                                       *)
(***************************************************************************)
self(t) == configs[frame[t].config[1]]

\* the attributes handed to Resource.create: a dict display, later entries win
resource_attributes(c) ==
    dict_merge(
        dict_set(dict_set(dict_set(EmptyDict,
            key_service_name, c.service_name),
            key_service_version, c.service_version),
            key_deployment_environment, c.environment),
        c.custom_attributes)

\* opentelemetry.trace.set_tracer_provider: the global is set once; a later
\* call logs "Overriding of current TracerProvider is not allowed" and keeps it
set_tracer_provider(current, p) == IF current = None THEN Some(p) ELSE current

\* opentelemetry.trace.get_tracer: a tracer of the registered provider, or of
\* the API's proxy provider (0) while none is registered
get_tracer(current) == IF current = None THEN [provider |-> 0] ELSE [provider |-> current[1]]

\* setup_tracing returns: to the caller, or into setup_opentelemetry's tracer
st_return(t, tracer) ==
    IF frame[t].op = "setup_opentelemetry"
    THEN /\ frame' = [frame EXCEPT ![t].tracer = tracer]
         /\ pc' = [pc EXCEPT ![t] = "il"]
         /\ UNCHANGED outcome
    ELSE EndCall(t, "returned", tracer)

\* as st_enabled, without the test of otel_enabled
st_enabled_unchecked(t) ==
    /\ pc[t] = "st_enabled"
    /\ pc' = [pc EXCEPT ![t] = "st_provider"]
    /\ UNCHANGED <<env, configs, _otel_config, frame, calls, outcome, providers,
                   _TRACER_PROVIDER, textmap, effects, instr, log, held, broken, parse_out>>

\* if not self.otel_enabled: log and return None
st_enabled(t) ==
    /\ pc[t] = "st_enabled"
    /\ IF ~self(t).otel_enabled
       THEN /\ log' = [log EXCEPT !.disabled_info = @ + 1]
            /\ st_return(t, None)
       ELSE /\ pc' = [pc EXCEPT ![t] = "st_provider"]
            /\ UNCHANGED <<log, frame, outcome>>
    /\ UNCHANGED <<env, configs, _otel_config, calls, providers, _TRACER_PROVIDER,
                   textmap, effects, instr, held, broken, parse_out>>

\* the resource, the TracerProvider and its registration
st_provider(t) ==
    /\ pc[t] = "st_provider"
    /\ providers' = Append(providers,
            [resource |-> resource_attributes(self(t)), processors |-> <<>>])
    /\ frame' = [frame EXCEPT ![t].tracer_provider = Some(Len(providers) + 1)]
    /\ _TRACER_PROVIDER' = set_tracer_provider(_TRACER_PROVIDER, Len(providers) + 1)
    /\ effects' = [effects EXCEPT !.set_tracer_provider = @ + 1]
    /\ pc' = [pc EXCEPT ![t] = "st_jaeger"]
    /\ UNCHANGED <<env, configs, _otel_config, calls, outcome, textmap, instr, log,
                   held, broken, parse_out>>

\* if self.jaeger_endpoint: truthiness of None and of ""
truthy(opt) == opt # None /\ opt[1] # <<>>

jaeger_host(endpoint) ==
    IF find(endpoint, ":") # 0 THEN split(endpoint, ":")[1] ELSE endpoint

\* int(self.jaeger_endpoint.split(":")[1]) raises ValueError
jaeger_port_raises(endpoint) ==
    find(endpoint, ":") # 0 /\ int_raises(split(endpoint, ":")[2])

jaeger_port(endpoint) ==
    IF find(endpoint, ":") # 0 THEN int(split(endpoint, ":")[2]) ELSE DefaultJaegerPort

\* the Jaeger exporter; the ValueError of the port leaves setup_tracing
st_jaeger(t) ==
    /\ pc[t] = "st_jaeger"
    /\ LET endpoint == self(t).jaeger_endpoint IN
       IF truthy(endpoint) /\ jaeger_port_raises(endpoint[1])
       THEN /\ EndCall(t, "raised", None)
            /\ UNCHANGED effects
       ELSE /\ IF truthy(endpoint)
               THEN /\ frame' = [frame EXCEPT ![t].exporters =
                            Append(@, [kind |-> "jaeger",
                                       agent_host_name |-> jaeger_host(endpoint[1]),
                                       agent_port |-> jaeger_port(endpoint[1])])]
                    /\ effects' = [effects EXCEPT !.exporters = @ + 1]
               ELSE UNCHANGED <<frame, effects>>
            /\ pc' = [pc EXCEPT ![t] = "st_otlp"]
            /\ UNCHANGED outcome
    /\ UNCHANGED <<env, configs, _otel_config, calls, providers, _TRACER_PROVIDER,
                   textmap, instr, log, held, broken, parse_out>>

\* the OTLP exporter
st_otlp(t) ==
    /\ pc[t] = "st_otlp"
    /\ IF truthy(self(t).otlp_endpoint)
       THEN /\ frame' = [frame EXCEPT ![t].exporters =
                    Append(@, [kind |-> "otlp", endpoint |-> self(t).otlp_endpoint[1]])]
            /\ effects' = [effects EXCEPT !.exporters = @ + 1]
       ELSE UNCHANGED <<frame, effects>>
    /\ pc' = [pc EXCEPT ![t] = "st_console"]
    /\ UNCHANGED <<env, configs, _otel_config, calls, outcome, providers,
                   _TRACER_PROVIDER, textmap, instr, log, held, broken, parse_out>>

\* the console exporter
st_console(t) ==
    /\ pc[t] = "st_console"
    /\ IF self(t).console_exporter
       THEN /\ frame' = [frame EXCEPT ![t].exporters = Append(@, [kind |-> "console"])]
            /\ effects' = [effects EXCEPT !.exporters = @ + 1]
       ELSE UNCHANGED <<frame, effects>>
    /\ pc' = [pc EXCEPT ![t] = "st_processors"]
    /\ UNCHANGED <<env, configs, _otel_config, calls, outcome, providers,
                   _TRACER_PROVIDER, textmap, instr, log, held, broken, parse_out>>

\* as st_processors, without the loop that adds the span processors
st_processors_none(t) ==
    /\ pc[t] = "st_processors"
    /\ log' = [log EXCEPT !.no_exporters_warning =
                    @ + (IF frame[t].exporters = <<>> THEN 1 ELSE 0)]
    /\ pc' = [pc EXCEPT ![t] = "st_propagators"]
    /\ UNCHANGED <<env, configs, _otel_config, frame, calls, outcome, providers,
                   _TRACER_PROVIDER, textmap, effects, instr, held, broken, parse_out>>

\* the warning for no exporter, then one BatchSpanProcessor per exporter, added
\* to the provider this call created
st_processors(t) ==
    /\ pc[t] = "st_processors"
    /\ log' = [log EXCEPT !.no_exporters_warning =
                    @ + (IF frame[t].exporters = <<>> THEN 1 ELSE 0)]
    /\ providers' = [providers EXCEPT ![frame[t].tracer_provider[1]].processors =
                    @ \o [i \in 1..Len(frame[t].exporters) |->
                            [batch |-> frame[t].exporters[i]]]]
    /\ pc' = [pc EXCEPT ![t] = "st_propagators"]
    /\ UNCHANGED <<env, configs, _otel_config, frame, calls, outcome, _TRACER_PROVIDER,
                   textmap, effects, instr, held, broken, parse_out>>

Propagators == <<"tracecontext", "b3", "jaeger">>

\* set_global_textmap(CompositeHTTPPropagator(propagators))
st_propagators(t) ==
    /\ pc[t] = "st_propagators"
    /\ textmap' = Some(Propagators)
    /\ effects' = [effects EXCEPT !.set_global_textmap = @ + 1]
    /\ pc' = [pc EXCEPT ![t] = "st_tracer"]
    /\ UNCHANGED <<env, configs, _otel_config, frame, calls, outcome, providers,
                   _TRACER_PROVIDER, instr, log, held, broken, parse_out>>

\* tracer = trace.get_tracer(__name__); return tracer
st_tracer(t) ==
    /\ pc[t] = "st_tracer"
    /\ st_return(t, Some(get_tracer(_TRACER_PROVIDER)))
    /\ UNCHANGED <<env, configs, _otel_config, calls, providers, _TRACER_PROVIDER,
                   textmap, effects, instr, log, held, broken, parse_out>>

(***************************************************************************)
(* OpenTelemetryConfig.instrument_libraries                                *)
(***************************************************************************)
\* as try_instrument, without the except clause: the exception leaves
try_instrument_uncaught(st, lib, flag, fails) ==
    IF st.escaped \/ ~flag THEN st
    ELSE IF fails
         THEN [st EXCEPT !.instr[lib].calls = @ + 1, !.escaped = TRUE]
         ELSE [st EXCEPT !.instr[lib].calls = @ + 1, !.instr[lib].active = TRUE]

\* try: if flag: Instrumentor().instrument() / except Exception: warning.
\* st is [instr, escaped]; escaped says an exception left instrument_libraries
try_instrument(st, lib, flag, fails) ==
    IF st.escaped \/ ~flag THEN st
    ELSE IF fails
         THEN [st EXCEPT !.instr[lib].calls = @ + 1, !.instr[lib].warnings = @ + 1]
         ELSE [st EXCEPT !.instr[lib].calls = @ + 1, !.instr[lib].active = TRUE]

\* the four blocks in the order of the code; fails: the libraries whose
\* instrument() raises in this call
instrument_libraries(c, in, fails) ==
    LET s0 == [instr |-> in, escaped |-> FALSE]
        s1 == try_instrument(s0, "flask", c.instrument.flask, "flask" \in fails)
        s2 == try_instrument(s1, "sqlalchemy", c.instrument.sqlalchemy,
                             "sqlalchemy" \in fails)
        s3 == try_instrument(s2, "kafka", c.instrument.kafka, "kafka" \in fails)
        s4 == try_instrument(s3, "psycopg2", c.instrument.psycopg2, "psycopg2" \in fails)
    IN  IF ~c.otel_enabled THEN s0 ELSE s4

il(t) ==
    /\ pc[t] = "il"
    /\ effects' = [effects EXCEPT !.instrument_libraries = @ + 1]
    /\ LET r == instrument_libraries(self(t), instr, broken) IN
        /\ instr' = r.instr
        /\ IF r.escaped
           THEN EndCall(t, "raised", None)
           ELSE EndCall(t, "returned",
                        IF frame[t].op = "setup_opentelemetry" THEN frame[t].tracer ELSE None)
    /\ UNCHANGED <<env, configs, _otel_config, calls, providers, _TRACER_PROVIDER,
                   textmap, log, held, broken, parse_out>>

(***************************************************************************)
(* get_tracer                                                              *)
(***************************************************************************)
CallGetTracer(t) ==
    /\ t = "main"
    /\ pc[t] = "idle"
    /\ calls[t] < (IF t = "main" THEN MaxCalls ELSE MaxWorkerCalls)
    /\ calls' = [calls EXCEPT ![t] = @ + 1]
    /\ outcome' = [outcome EXCEPT ![t] =
            [op |-> "get_tracer", how |-> "returned",
             value |-> Some(get_tracer(_TRACER_PROVIDER)), built |-> None]]
    /\ UNCHANGED <<env, configs, _otel_config, pc, frame, providers, _TRACER_PROVIDER,
                   textmap, effects, instr, log, held, broken, parse_out>>

(***************************************************************************)
(* The process.                                                            *)
(***************************************************************************)
str_a1 == <<"a", "=", "1">>
str_a1_b == <<"a", "=", "1", ",", "b">>
str_service_name_x == key_service_name \o <<"=", "x">>
str_h == <<"h">>
str_h_6831 == <<"h", ":", "6", "8", "3", "1">>
str_bad_not_a_port ==
    <<"b", "a", "d", ":", "n", "o", "t", "-", "a", "-", "p", "o", "r", "t">>
str_otlp == <<"o">>
str_abc == <<"a", "b", "c">>

str_t == <<"t">>

Unset ==
    [OTEL_SERVICE_NAME |-> None, OTEL_SERVICE_VERSION |-> None, OTEL_ENVIRONMENT |-> None,
     OTEL_ENABLED |-> None, OTEL_JAEGER_ENDPOINT |-> None, OTEL_OTLP_ENDPOINT |-> None,
     OTEL_CONSOLE_EXPORTER |-> None, OTEL_TRACE_SAMPLE_RATE |-> None,
     OTEL_INSTRUMENT_FLASK |-> None, OTEL_INSTRUMENT_SQLALCHEMY |-> None,
     OTEL_INSTRUMENT_KAFKA |-> None, OTEL_INSTRUMENT_PSYCOPG2 |-> None,
     OTEL_CUSTOM_ATTRIBUTES |-> None]

Enabled == {None, Some(str_TRUE), Some(str_false)}
CustomAttributes == {None, Some(str_a1), Some(str_service_name_x), Some(str_a1_b)}

\* os.environ at start, None being the unset variable.  Three families, each
\* giving every value to the settings one part of the code reads and leaving
\* the other settings unset.
\* the exporters, the sample rate and the custom attributes
ExporterEnvironments ==
    {[Unset EXCEPT !.OTEL_ENABLED = en, !.OTEL_JAEGER_ENDPOINT = j,
                   !.OTEL_OTLP_ENDPOINT = o, !.OTEL_CONSOLE_EXPORTER = c,
                   !.OTEL_TRACE_SAMPLE_RATE = r, !.OTEL_CUSTOM_ATTRIBUTES = a] :
        en \in Enabled,
        j \in {None, Some(<<>>), Some(str_h), Some(str_h_6831), Some(str_bad_not_a_port)},
        o \in {None, Some(str_otlp)},
        c \in {None, Some(str_true)},
        r \in {None, Some(str_abc)},
        a \in CustomAttributes}

\* the instrumentation flags
InstrumentEnvironments ==
    {[Unset EXCEPT !.OTEL_ENABLED = Some(str_true), !.OTEL_CONSOLE_EXPORTER = Some(str_true),
                   !.OTEL_INSTRUMENT_FLASK = f, !.OTEL_INSTRUMENT_SQLALCHEMY = q,
                   !.OTEL_INSTRUMENT_KAFKA = k, !.OTEL_INSTRUMENT_PSYCOPG2 = p] :
        f \in {None, Some(str_false)}, q \in {None, Some(str_false)},
        k \in {None, Some(str_false)}, p \in {None, Some(str_false)}}

\* the service identity
IdentityEnvironments ==
    {[Unset EXCEPT !.OTEL_ENABLED = Some(str_true), !.OTEL_SERVICE_NAME = n,
                   !.OTEL_SERVICE_VERSION = v, !.OTEL_ENVIRONMENT = d,
                   !.OTEL_CUSTOM_ATTRIBUTES = a] :
        n \in {None, Some(str_t)}, v \in {None, Some(str_t)}, d \in {None, Some(str_t)},
        a \in CustomAttributes}

Start ==
    /\ configs = <<>>
    /\ _otel_config = None
    /\ pc = [t \in Threads |-> "idle"]
    /\ frame = [t \in Threads |-> NoFrame]
    /\ calls = [t \in Threads |-> 0]
    /\ outcome = [t \in Threads |-> NoOutcome]
    /\ providers = <<>>
    /\ _TRACER_PROVIDER = None
    /\ textmap = None
    /\ effects = [set_tracer_provider |-> 0, exporters |-> 0, set_global_textmap |-> 0,
                  instrument_libraries |-> 0]
    /\ instr = [l \in Libs |-> [calls |-> 0, active |-> FALSE, warnings |-> 0]]
    /\ log = [parse_warning |-> 0, disabled_info |-> 0, no_exporters_warning |-> 0]
    /\ held = [t \in Threads |-> None]
    /\ parse_out = None

\* the settings get_otel_config and a racing set-up depend on
ThreadEnvironments ==
    {[Unset EXCEPT !.OTEL_ENABLED = en, !.OTEL_JAEGER_ENDPOINT = j,
                   !.OTEL_CONSOLE_EXPORTER = c, !.OTEL_TRACE_SAMPLE_RATE = r] :
        en \in Enabled,
        j \in {None, Some(str_bad_not_a_port)},
        c \in {None, Some(str_true)},
        r \in {None, Some(str_abc)}}

\* broken: the libraries whose instrument() raises in this process (a missing
\* dependency, an incompatible version)
Init ==
    /\ \/ env \in ExporterEnvironments /\ broken = {}
       \/ env \in InstrumentEnvironments /\ broken \in SUBSET Libs
       \/ env \in IdentityEnvironments /\ broken = {}
    /\ Start

\* what thread t can do next
Step(t) ==
    \/ CallGetOtelConfig(t)
    \/ CallSetupTracing(t)
    \/ CallInstrumentLibraries(t)
    \/ CallSetupOpentelemetry(t)
    \/ CallGetTracer(t)
    \/ goc_check(t)
    \/ goc_construct(t)
    \/ goc_store(t)
    \/ goc_return(t)
    \/ st_enabled(t)
    \/ st_provider(t)
    \/ st_jaeger(t)
    \/ st_otlp(t)
    \/ st_console(t)
    \/ st_processors(t)
    \/ st_propagators(t)
    \/ st_tracer(t)
    \/ il(t)

\* the process at start-up: the main thread alone
Next == Step("main")

Spec == Init /\ [][Next]_vars

\* the main thread and a second thread that calls get_otel_config
ThreadsInit ==
    /\ env \in ThreadEnvironments
    /\ broken = {}
    /\ Start

ThreadsNext == \E t \in Threads : Step(t)

SpecThreads == ThreadsInit /\ [][ThreadsNext]_vars

(***************************************************************************)
(* _parse_custom_attributes on every string of the alphabet up to MaxLen.  *)
(***************************************************************************)
Alphabet == {"a", "b", "=", ",", " "}

Strings == UNION {[1..n -> Alphabet] : n \in 0..MaxLen}

ParseInit ==
    /\ \/ \E s \in Strings \ {<<>>} : env = [Unset EXCEPT !.OTEL_CUSTOM_ATTRIBUTES = Some(s)]
       \/ env = [Unset EXCEPT !.OTEL_CUSTOM_ATTRIBUTES = Some(<<>>)]
       \/ env = Unset
    /\ broken = {}
    /\ Start

ParseNext ==
    /\ parse_out = None
    /\ parse_out' = Some(_parse_custom_attributes(env))
    /\ UNCHANGED <<env, configs, _otel_config, pc, frame, calls, outcome, providers,
                   _TRACER_PROVIDER, textmap, effects, instr, log, held, broken>>

SpecParse == ParseInit /\ [][ParseNext]_vars

(***************************************************************************)
(* The settings as the environment gives them, read without the model of   *)
(* the configuration object.                                               *)
(***************************************************************************)
SetTrue(name, default) == lower(getenv(env, name, default)) = str_true

EnabledInEnv == SetTrue("OTEL_ENABLED", str_false)

FlagInEnv(l) ==
    CASE l = "flask" -> SetTrue("OTEL_INSTRUMENT_FLASK", str_true)
      [] l = "sqlalchemy" -> SetTrue("OTEL_INSTRUMENT_SQLALCHEMY", str_true)
      [] l = "kafka" -> SetTrue("OTEL_INSTRUMENT_KAFKA", str_true)
      [] l = "psycopg2" -> SetTrue("OTEL_INSTRUMENT_PSYCOPG2", str_true)

Configured(name) == env[name] # None /\ env[name][1] # <<>>

\* the text after the first ":" of the Jaeger endpoint is no decimal numeral
JaegerPortUnparseable ==
    /\ Configured("OTEL_JAEGER_ENDPOINT")
    /\ LET parts == split(env.OTEL_JAEGER_ENDPOINT[1], ":") IN
       Len(parts) > 1 /\ (parts[2] = <<>> \/ \E i \in 1..Len(parts[2]) : parts[2][i] \notin Digits)

\* the kinds of the exporters the environment configures, in the order of the code
ConfiguredKinds ==
    (IF Configured("OTEL_JAEGER_ENDPOINT") THEN <<"jaeger">> ELSE <<>>)
    \o (IF Configured("OTEL_OTLP_ENDPOINT") THEN <<"otlp">> ELSE <<>>)
    \o (IF SetTrue("OTEL_CONSOLE_EXPORTER", str_false) THEN <<"console">> ELSE <<>>)

\* the kinds of the exporters behind the batch pipelines of provider p
AttachedKinds(p) == [i \in 1..Len(providers[p].processors) |-> providers[p].processors[i].batch.kind]

SetupOps == {"setup_tracing", "setup_opentelemetry"}

(***************************************************************************)
(* C1: with tracing disabled in the environment, whatever calls are made,  *)
(* no tracer provider is created or registered, no exporter is constructed *)
(* or attached, no propagator is installed, no library is instrumented,    *)
(* and setup_tracing (alone or under setup_opentelemetry) returns None.    *)
(***************************************************************************)
C1_DisabledInstallsNothing ==
    ~EnabledInEnv =>
        /\ providers = <<>>
        /\ _TRACER_PROVIDER = None
        /\ textmap = None
        /\ effects.set_tracer_provider = 0
        /\ effects.exporters = 0
        /\ effects.set_global_textmap = 0
        /\ \A l \in Libs : instr[l].calls = 0 /\ ~instr[l].active
        /\ \A t \in Threads :
            /\ frame[t].exporters = <<>> /\ frame[t].tracer_provider = None
            /\ frame[t].tracer = None
            /\ outcome[t].op = "setup_tracing" =>
                    outcome[t].how = "returned" /\ outcome[t].value = None
            /\ (outcome[t].op = "setup_opentelemetry" /\ outcome[t].how = "returned") =>
                    outcome[t].value = None

\* disabled, and setup_opentelemetry has run setup_tracing and instrument_libraries
\* with every library flagged
C1_Witness ==
    /\ ~EnabledInEnv
    /\ \A l \in Libs : FlagInEnv(l)
    /\ outcome["main"].op = "setup_opentelemetry"
    /\ outcome["main"].how = "returned"
    /\ effects.instrument_libraries > 0
    /\ log.disabled_info > 0

(***************************************************************************)
(* C4: with tracing enabled, after n runs of instrument_libraries every    *)
(* flagged library has had instrument() called n times, whichever of the   *)
(* libraries raise; each raise is logged as one warning; a library whose   *)
(* flag is false is never instrumented; no exception leaves                *)
(* instrument_libraries.                                                   *)
(***************************************************************************)
C4_LibrariesIndependent ==
    EnabledInEnv =>
        /\ \A l \in Libs :
            IF FlagInEnv(l)
            THEN /\ instr[l].calls = effects.instrument_libraries
                 /\ instr[l].warnings = (IF l \in broken THEN instr[l].calls ELSE 0)
                 /\ instr[l].active = (l \notin broken /\ instr[l].calls > 0)
            ELSE instr[l] = [calls |-> 0, active |-> FALSE, warnings |-> 0]
        /\ \A t \in Threads :
            outcome[t].op = "instrument_libraries" => outcome[t].how = "returned"

\* Flask's instrument() raised and was logged, Kafka is switched off, and
\* Psycopg2, the last block, was still instrumented
C4_Witness ==
    /\ EnabledInEnv
    /\ "flask" \in broken /\ FlagInEnv("flask") /\ instr["flask"].warnings > 0
    /\ ~FlagInEnv("kafka")
    /\ "psycopg2" \notin broken /\ instr["psycopg2"].active
    /\ outcome["main"].op = "instrument_libraries"

(***************************************************************************)
(* C9: setup_tracing registers the provider, then constructs the Jaeger,   *)
(* the OTLP and the console exporter in that order, then attaches one      *)
(* batch pipeline per exporter, then installs the composite propagator     *)
(* (trace-context, B3, Jaeger).  So: while the exporters are constructed a *)
(* provider is registered, the provider of the call has no pipeline and    *)
(* the propagator of the call is not installed; an installed propagator    *)
(* means a registered provider with a pipeline for every configured        *)
(* exporter; a call that raised left a registered provider, no pipeline    *)
(* and no propagator.                                                      *)
(***************************************************************************)
Kinds(exporters) == [i \in 1..Len(exporters) |-> exporters[i].kind]

C9_SetupOrder ==
    /\ effects.set_global_textmap <= effects.set_tracer_provider
    /\ textmap # None =>
        /\ textmap = Some(<<"tracecontext", "b3", "jaeger">>)
        /\ _TRACER_PROVIDER # None
        /\ AttachedKinds(_TRACER_PROVIDER[1]) = ConfiguredKinds
    /\ \A t \in Threads :
        /\ pc[t] \in {"st_jaeger", "st_otlp", "st_console", "st_processors"} =>
            /\ _TRACER_PROVIDER # None
            /\ frame[t].tracer_provider # None
            /\ providers[frame[t].tracer_provider[1]].processors = <<>>
            /\ effects.set_global_textmap < effects.set_tracer_provider
            /\ Kinds(frame[t].exporters) =
                    CASE pc[t] = "st_jaeger" -> <<>>
                      [] pc[t] = "st_otlp" -> SelectSeq(ConfiguredKinds, LAMBDA k : k = "jaeger")
                      [] pc[t] = "st_console" -> SelectSeq(ConfiguredKinds, LAMBDA k : k # "console")
                      [] pc[t] = "st_processors" -> ConfiguredKinds
        /\ pc[t] = "st_propagators" =>
            /\ AttachedKinds(frame[t].tracer_provider[1]) = ConfiguredKinds
            /\ effects.set_global_textmap < effects.set_tracer_provider
        /\ pc[t] = "st_tracer" => effects.set_global_textmap = effects.set_tracer_provider
        /\ (outcome[t].op \in SetupOps /\ outcome[t].how = "raised" /\ outcome[t].built # None) =>
            /\ _TRACER_PROVIDER # None
            /\ providers[_TRACER_PROVIDER[1]].processors = <<>>
            /\ providers[outcome[t].built[1]].processors = <<>>
            /\ textmap = None

\* all three exporters configured, set-up done: the three pipelines in order
\* and the propagator
C9_Witness ==
    /\ ConfiguredKinds = <<"jaeger", "otlp", "console">>
    /\ outcome["main"].op = "setup_tracing"
    /\ outcome["main"].how = "returned"
    /\ textmap # None
    /\ Len(providers[1].processors) = 3

(***************************************************************************)
(* C2: for every malformed custom-attributes string (the empty string, an  *)
(* entry with no "=", a trailing comma) _parse_custom_attributes returns   *)
(* the empty map and logs a warning; no entry parsed before the malformed  *)
(* one stays in the map.                                                   *)
(***************************************************************************)
Malformed(s) ==
    \/ s = <<>>
    \/ \E i \in 1..Len(split(s, ",")) : find(strip(split(s, ",")[i]), "=") = 0

C2_ParseAllOrNothing ==
    (parse_out # None /\ Malformed(getenv(env, "OTEL_CUSTOM_ATTRIBUTES", <<>>))) =>
        /\ DOMAIN parse_out[1].attributes = {}
        /\ parse_out[1].warned

(***************************************************************************)
(* C3: with tracing enabled, the failure to construct the Jaeger exporter  *)
(* (an unparseable port) does not stop setup_tracing: it returns, and the  *)
(* other configured exporters are attached to the provider it built.       *)
(***************************************************************************)
C3_ExporterFailureIsolated ==
    \A t \in Threads :
        (/\ EnabledInEnv
         /\ JaegerPortUnparseable
         /\ outcome[t].op \in SetupOps
         /\ outcome[t].built # None) =>
            /\ outcome[t].how = "returned"
            /\ AttachedKinds(outcome[t].built[1]) =
                    SelectSeq(ConfiguredKinds, LAMBDA k : k # "jaeger")

(***************************************************************************)
(* C5: in the resource of every provider, service.name, service.version    *)
(* and deployment.environment carry the configured service name, version   *)
(* and environment, whatever the custom attributes are.                    *)
(***************************************************************************)
C5_FixedFieldsKept ==
    \A i \in 1..Len(providers) :
        /\ providers[i].resource[key_service_name] =
                getenv(env, "OTEL_SERVICE_NAME", default_service_name)
        /\ providers[i].resource[key_service_version] =
                getenv(env, "OTEL_SERVICE_VERSION", default_service_version)
        /\ providers[i].resource[key_deployment_environment] =
                getenv(env, "OTEL_ENVIRONMENT", default_environment)

(***************************************************************************)
(* C6: over any sequence of set-up calls at most one provider is created,  *)
(* the provider is registered and the propagator installed at most once,   *)
(* and no second set of pipelines is attached.                             *)
(***************************************************************************)
C6_SetupAtMostOnce ==
    /\ Len(providers) <= 1
    /\ effects.set_tracer_provider <= 1
    /\ effects.set_global_textmap <= 1
    /\ effects.exporters <= Len(ConfiguredKinds)

(***************************************************************************)
(* C7: an unparseable sample rate or Jaeger port makes the construction of *)
(* OpenTelemetryConfig fail: no instance exists, none is cached, and no    *)
(* process-wide tracing state has been mutated.                            *)
(***************************************************************************)
SampleRateUnparseable ==
    float_raises(getenv(env, "OTEL_TRACE_SAMPLE_RATE", default_sample_rate))

C7_NumericErrorsAtConstruction ==
    (SampleRateUnparseable \/ JaegerPortUnparseable) =>
        /\ configs = <<>>
        /\ _otel_config = None
        /\ providers = <<>>
        /\ _TRACER_PROVIDER = None
        /\ textmap = None

(***************************************************************************)
(* C8: when setup_opentelemetry returns with tracing enabled, its tracer   *)
(* is not None, the provider it built is the registered one, and a         *)
(* get_tracer call gets its tracer from the registered provider.           *)
(***************************************************************************)
C8_SetupRegistersItsProvider ==
    [][\A t \in Threads :
        /\ (/\ EnabledInEnv
            /\ pc[t] # "idle" /\ pc'[t] = "idle"
            /\ outcome'[t].op = "setup_opentelemetry"
            /\ outcome'[t].how = "returned") =>
                /\ outcome'[t].value # None
                /\ outcome'[t].built # None
                /\ _TRACER_PROVIDER' = outcome'[t].built
                /\ outcome'[t].value[1].provider = outcome'[t].built[1]
        /\ (/\ calls'[t] # calls[t]
            /\ outcome'[t].op = "get_tracer"
            /\ _TRACER_PROVIDER # None) =>
                outcome'[t].value[1].provider = _TRACER_PROVIDER[1]]_vars

(***************************************************************************)
(* C10: get_otel_config constructs at most one instance and every call, in *)
(* either thread, returns that one instance.                               *)
(***************************************************************************)
C10_SingleInstance ==
    /\ Len(configs) <= 1
    /\ \A t, u \in Threads : (held[t] # None /\ held[u] # None) => held[t] = held[u]

====
